---- MODULE Spec2Model ----
(***************************************************************************)
(* State-machine model of src/firebase_setup.py: the FirebaseManager        *)
(* singleton, its credential resolution chain, the session lifecycle        *)
(* (initialize and the lazy accessors), the merge-write of                   *)
(* update_market_state and the document listener of stream_market_updates.  *)
(* Threads interleave at every read or write of the                         *)
(* shared instance fields, of the SDK's app registry and of the remote      *)
(* document store; the code takes no lock.  Computation that is local to    *)
(* a caller belongs to the step of the shared access that precedes it.      *)
(***************************************************************************)
EXTENDS Integers, Sequences, FiniteSets, TLC

\* ---------------------------------------------------------------- bounds
NumThreads == 2

\* Notifications after which other processes stop changing documents.
MaxNotifications == 2

\* Each thread makes one call on the shared singleton; the threads are
\* numbered in the order in which their calls start.
Threads == 1..NumThreads

\* ------------------------------------------------------- value universes
\* Python None for object references; handles are tagged tuples.
None == <<>>
AppHandle(n) == <<"App", n>>
ClientHandle(a) == <<"FirestoreClient", a>>
RefHandle(a) == <<"Reference", a>>
Instance == <<"FirebaseManager">>

\* os.environ.get(name) of a variable that is not set, and an absent
\* credential_path argument (both None in the code, strings elsewhere).
Unset == "<None>"

\* Python truthiness of an Optional[str]: None and "" are falsy.
Truthy(v) == v # Unset /\ v # ""

\* The file system seen by os.path.exists / credentials.Certificate(path).
ExistingFiles == {"cred.json"}
PathExists(p) == p \in ExistingFiles

CredPaths == {Unset, "", "missing.json", "cred.json"}
GacValues == {Unset, "", "adc.json"}
FsaValues == {Unset, "", "{bad", "{account}"}
UrlValues == {Unset, "", "https://db"}

\* The environments and paths of the concurrent specification: one for
\* each outcome of the resolver and of the URL test.  The resolver
\* specification below ranges over the full products instead.
EnvProfiles ==
  { <<Unset, Unset, Unset>>,
    <<Unset, "{bad", "https://db">>,
    <<"adc.json", "{account}", "https://db">>,
    <<"", "{account}", "">> }
MainCredPaths == {Unset, "missing.json", "cred.json"}

\* json.loads succeeds exactly on well-formed payloads.
JsonLoadsOk(s) == s = "{account}"

\* The chain with the two environment tests in the opposite order.
SelectStrategy_InlineFirst(cp, gac, fsa) ==
  IF Truthy(cp) /\ PathExists(cp) THEN 1
  ELSE IF Truthy(fsa) THEN 3
  ELSE IF Truthy(gac) THEN 2
  ELSE 4

\* Lines 55-73: the if / elif chain that picks the credential strategy.
SelectStrategy(cp, gac, fsa) ==
  IF Truthy(cp) /\ PathExists(cp) THEN 1
  ELSE IF Truthy(gac) THEN 2
  ELSE IF Truthy(fsa) THEN 3
  ELSE 4

\* A resolver that swallows the parse error and carries on.
ResolveRaises_FallsThrough(cp, gac, fsa) == FALSE

\* Lines 55-73: does building the credential raise?  Only strategy 3 parses
\* anything eagerly (json.loads at line 66); ApplicationDefault() is lazy.
ResolveRaises(cp, gac, fsa) ==
  SelectStrategy(cp, gac, fsa) = 3 /\ ~JsonLoadsOk(fsa)

\* --------------------------------------------------------- write payloads
\* A state_data argument that is not a dict (None, a list, a scalar).
NotADict == [f \in {"<not-a-dict>"} |-> "x"]
SourceTag == "aatb_intelligence_layer"
Symbols == {"", "BTC/USDT", "ETH/USDT"}
PriceOnly == [f \in {"price"} |-> "100"]
VolumeOnly == [f \in {"volume"} |-> "5"]
Spoofing ==
  [f \in {"price", "symbol", "source"} |->
     IF f = "price" THEN "101" ELSE "caller"]
Payloads == {NotADict, PriceOnly, VolumeOnly, Spoofing}

\* The (symbol, state_data) pairs the callers pass.
UpdateArgs ==
  { <<"BTC/USDT", PriceOnly>>, <<"BTC/USDT", VolumeOnly>>,
    <<"BTC/USDT", Spoofing>>, <<"ETH/USDT", PriceOnly>>,
    <<"", PriceOnly>>, <<"BTC/USDT", NotADict>> }

IsDict(d) == "<not-a-dict>" \notin DOMAIN d

\* An argument check that forgets the symbol.
ValidArgs_IgnoresSymbol(symbol, data) == IsDict(data)

\* Line 120: the argument check of update_market_state.
ValidArgs(symbol, data) == ~(symbol = "" \/ ~IsDict(data))

EnrichmentFields == {"timestamp", "symbol", "updated_at", "source"}
ServerTimestamp == "SERVER_TIMESTAMP"

\* The dict display with the unpacking last: caller fields win.
Enrich_CallerWins(symbol, data, now) ==
  [f \in (DOMAIN data) \cup EnrichmentFields |->
     IF f \in DOMAIN data THEN data[f]
     ELSE IF f = "timestamp" THEN ServerTimestamp
     ELSE IF f = "symbol" THEN symbol
     ELSE IF f = "updated_at" THEN now
     ELSE SourceTag]

\* Lines 124-130: {**state_data, 'timestamp':.., 'symbol':.., ...}; later
\* keys of a dict display win over earlier ones.
Enrich(symbol, data, now) ==
  [f \in (DOMAIN data) \cup EnrichmentFields |->
     IF f = "timestamp" THEN ServerTimestamp
     ELSE IF f = "symbol" THEN symbol
     ELSE IF f = "updated_at" THEN now
     ELSE IF f = "source" THEN SourceTag
     ELSE data[f]]

\* The store replaces the SERVER_TIMESTAMP sentinel by its own time.
ServerResolve(payload, stime) ==
  [f \in DOMAIN payload |->
     IF payload[f] = ServerTimestamp THEN stime ELSE payload[f]]

\* set() without merge=True: the document is replaced.
MergeSet_Overwrite(doc, payload) == payload

\* Line 133: DocumentReference.set(data, merge=True) on the stored document.
MergeSet(doc, payload) ==
  [f \in (DOMAIN doc) \cup (DOMAIN payload) |->
     IF f \in DOMAIN payload THEN payload[f] ELSE doc[f]]

NoDoc == [f \in {} |-> ""]

\* datetime.utcnow().isoformat() and the store's own time, as strings.
IsoFormat(n) == "utc" \o ToString(n)
ServerTime(n) == "srv" \o ToString(n)

\* ------------------------------------------------------- notifications
\* The DocumentSnapshot the store hands to a listener for a document whose
\* stored state is doc: .exists is false for a missing (deleted) document.
Snapshot(doc) == [exists |-> doc # NoDoc, data |-> doc]

\* DocumentSnapshot.to_dict() of a snapshot that does not exist (None).
NullPayload == [f \in {"<null>"} |-> ""]

\* Line 159: doc_snapshot.to_dict().
ToDict(snap) == IF snap.exists THEN snap.data ELSE NullPayload

\* An on_snapshot without the test of line 158.
Forwards_Always(snap) == TRUE

\* Line 158: if doc_snapshot.exists.
Forwards(snap) == snap.exists

\* Lines 157-159: the callback invocations of one run of on_snapshot, in
\* order, each given by its argument.
HandlerCalls(snap) == IF Forwards(snap) THEN <<ToDict(snap)>> ELSE <<>>

\* The subscription handed back to the caller of stream_market_updates.
SubscriptionHandle(t) == <<"Subscription", t>>

\* The documents callers subscribe to: one in the concurrent
\* specification, two in the subscription specification.
MainStreamSymbols == {"BTC/USDT"}
StreamSymbols == {"BTC/USDT", "ETH/USDT"}

\* What other processes leave in a document: a state, or nothing (deleted).
RemoteDocs == {PriceOnly, VolumeOnly, NoDoc}

VARIABLES
  envGac,        \* os.environ.get('GOOGLE_APPLICATION_CREDENTIALS')
  envFsa,        \* os.environ.get('FIREBASE_SERVICE_ACCOUNT')
  envUrl,        \* os.environ.get('FIREBASE_DATABASE_URL')
  instance,      \* FirebaseManager._instance
  initialized,   \* self._initialized
  app,           \* self.app
  firestore_client,  \* self.firestore_client
  realtime_db,   \* self.realtime_db
  sdkApp,        \* firebase_admin's registry: is the default app registered
  store,         \* remote documents of the collection, by symbol
  op,            \* per thread: the public operation in progress
  pc,            \* per thread: position inside the operation
  arg,           \* per thread: the arguments of the operation
  strategy,      \* per thread: strategy picked by the running initialize
  enriched,      \* per thread: enriched_data of the running update
  result,        \* per thread: outcome of the last finished operation
  retval,        \* per thread: value returned by the last finished accessor
  clock,         \* wall clock ticks (datetime.utcnow)
  initAppCalls,  \* executions of firebase_admin.initialize_app
  writeLog,      \* payloads of the successful writes, in store order
  setCalls,      \* executions of doc_ref.set
  faultSeen,     \* an external failure or a resolver failure has happened
  lastInit,      \* outcome of the most recently finished initialize call
  subscribed,    \* per thread: the document its listener is registered on
  listening,     \* per thread: the store keeps its listener open
  emitted,       \* per thread: notifications the store emitted to its listener
  delivered,     \* per thread: how many of them have reached on_snapshot
  handled,       \* per thread: payloads its callback has been called with
  cancelMark     \* per thread: notifications emitted when cancel completed

vars == <<envGac, envFsa, envUrl, instance, initialized, app,
          firestore_client, realtime_db, sdkApp, store, op, pc, arg,
          strategy, enriched, result, retval, clock, initAppCalls, writeLog,
          setCalls, faultSeen, lastInit, subscribed, listening, emitted,
          delivered, handled, cancelMark>>

env == <<envGac, envFsa, envUrl>>
session == <<app, firestore_client, realtime_db>>
class == <<instance, initialized>>
remote == <<store, writeLog, setCalls>>
stream == <<subscribed, listening, emitted, delivered, handled, cancelMark>>

\* cancelMark of a subscription that has not been cancelled; <<n>> once
\* cancel has completed with n notifications emitted.
NotCancelled == <<>>

NoArg == [credential_path |-> Unset, symbol |-> "", state_data |-> NotADict]

\* The state once FirebaseManager() has been constructed for the first
\* time, under the environment e = <<GAC, FSA, URL>>.
InitWith(e) ==
  /\ envGac = e[1]
  /\ envFsa = e[2]
  /\ envUrl = e[3]
  /\ instance = Instance
  /\ initialized = TRUE
  /\ app = None
  /\ firestore_client = None
  /\ realtime_db = None
  /\ sdkApp = FALSE
  /\ store = [s \in Symbols \ {""} |-> NoDoc]
  /\ op = [t \in Threads |-> "none"]
  /\ pc = [t \in Threads |-> "idle"]
  /\ arg = [t \in Threads |-> NoArg]
  /\ strategy = [t \in Threads |-> 0]
  /\ enriched = [t \in Threads |-> NoDoc]
  /\ result = [t \in Threads |-> "none"]
  /\ retval = [t \in Threads |-> None]
  /\ clock = 0
  /\ initAppCalls = 0
  /\ writeLog = <<>>
  /\ setCalls = 0
  /\ faultSeen = FALSE
  /\ lastInit = "none"
  /\ subscribed = [t \in Threads |-> ""]
  /\ listening = [t \in Threads |-> FALSE]
  /\ emitted = [t \in Threads |-> <<>>]
  /\ delivered = [t \in Threads |-> 0]
  /\ handled = [t \in Threads |-> <<>>]
  /\ cancelMark = [t \in Threads |-> NotCancelled]

Init == \E e \in EnvProfiles : InitWith(e)

shared == <<env, class, session, sdkApp, remote>>
counters == <<clock, initAppCalls, faultSeen, lastInit>>

\* ------------------------------------------------------ call and return
Idle(t) == pc[t] = "idle"
Failed(t) == result[t] \notin {"none", "ok"}

\* Thread t has not made its call yet and is the next one to do so.
MayCall(t) ==
  /\ Idle(t)
  /\ op[t] = "none"
  /\ \A u \in Threads : u < t => op[u] # "none"

\* Thread t starts operation o with arguments a at position p.
Start(t, o, a, p) ==
  /\ MayCall(t)
  /\ instance # None
  /\ op' = [op EXCEPT ![t] = o]
  /\ arg' = [arg EXCEPT ![t] = a]
  /\ pc' = [pc EXCEPT ![t] = p]
  /\ result' = [result EXCEPT ![t] = "none"]
  /\ retval' = [retval EXCEPT ![t] = None]

\* Thread t moves on inside its operation.
Goto(t, p) ==
  /\ pc' = [pc EXCEPT ![t] = p]
  /\ UNCHANGED <<arg, strategy, enriched, result, retval>>

\* The operation of thread t ends, normally (r = "ok") with value v or by
\* raising r; its frame (arguments and locals) is gone.
Finish(t, r, v) ==
  /\ pc' = [pc EXCEPT ![t] = "idle"]
  /\ result' = [result EXCEPT ![t] = r]
  /\ retval' = [retval EXCEPT ![t] = v]
  /\ arg' = [arg EXCEPT ![t] = NoArg]
  /\ strategy' = [strategy EXCEPT ![t] = 0]
  /\ enriched' = [enriched EXCEPT ![t] = NoDoc]

\* An __init__ without the _initialized test: every construction sets the
\* fields to None again.
Construct_Reinitializes(t) ==
  /\ MayCall(t)
  /\ instance' = Instance
  /\ app' = None
  /\ firestore_client' = None
  /\ realtime_db' = None
  /\ initialized' = TRUE
  /\ op' = [op EXCEPT ![t] = "construct"]
  /\ Finish(t, "ok", Instance)
  /\ UNCHANGED <<env, stream, sdkApp, remote, clock, initAppCalls, faultSeen,
                 lastInit>>

\* Lines 27-37: FirebaseManager() - __new__ creates the instance once,
\* __init__ sets the fields only while _initialized is false.
Construct(t) ==
  /\ MayCall(t)
  /\ instance' = Instance
  /\ IF ~initialized
       THEN /\ app' = None
            /\ firestore_client' = None
            /\ realtime_db' = None
            /\ initialized' = TRUE
       ELSE UNCHANGED <<session, initialized>>
  /\ op' = [op EXCEPT ![t] = "construct"]
  /\ Finish(t, "ok", Instance)
  /\ UNCHANGED <<env, stream, sdkApp, remote, clock, initAppCalls, faultSeen,
                 lastInit>>

\* ------------------------------------------------------------ initialize
\* initialize(credential_path) called by the user.
CallInitializeWith(t, paths) ==
  /\ \E cp \in paths :
       Start(t, "initialize", [NoArg EXCEPT !.credential_path = cp], "i_check")
  /\ UNCHANGED <<shared, stream, strategy, enriched, counters>>

CallInitialize(t) == CallInitializeWith(t, MainCredPaths)

\* initialize returns normally to whoever called it (lines 51 and 87).
InitReturns(t) ==
  /\ lastInit' = "ok"
  /\ CASE op[t] = "initialize" -> Finish(t, "ok", None)
       [] op[t] = "get_realtime_db" -> Goto(t, "grd_return")
       [] OTHER -> Goto(t, "gf_recheck")

\* Lines 89-91: initialize raises RuntimeError; no caller up the stack
\* catches it (update_market_state re-raises at line 140).
InitRaises(t) ==
  /\ lastInit' = "failed"
  /\ Finish(t, "RuntimeError", None)

\* A guard that looks at the client instead of the app.
AlreadyInitialized_ByClient == firestore_client # None

\* Line 49: self.app is not None.
AlreadyInitialized == app # None

\* Lines 49-51: the already-initialized guard.
InitGuardHit(t) ==
  /\ pc[t] = "i_check"
  /\ AlreadyInitialized
  /\ InitReturns(t)
  /\ UNCHANGED <<shared, stream, op, clock, initAppCalls, faultSeen>>

\* Lines 49-73: no app yet, and credential resolution succeeds.  The
\* resolver reads only the environment and the file system, so it is one
\* step with the guard.
InitResolveOk(t) ==
  /\ pc[t] = "i_check"
  /\ ~AlreadyInitialized
  /\ ~ResolveRaises(arg[t].credential_path, envGac, envFsa)
  /\ strategy' = [strategy EXCEPT ![t] =
                    SelectStrategy(arg[t].credential_path, envGac, envFsa)]
  /\ pc' = [pc EXCEPT ![t] = "i_app"]
  /\ UNCHANGED <<shared, stream, op, arg, enriched, result, retval, counters>>

\* Lines 49-66 and 89-91: no app yet, and json.loads rejects the inline
\* payload.
InitResolveFail(t) ==
  /\ pc[t] = "i_check"
  /\ ~AlreadyInitialized
  /\ ResolveRaises(arg[t].credential_path, envGac, envFsa)
  /\ faultSeen' = TRUE
  /\ InitRaises(t)
  /\ UNCHANGED <<shared, stream, op, clock, initAppCalls>>

\* Line 75: initialize_app registers the default app and self.app is set.
InitAppOk(t) ==
  /\ pc[t] = "i_app"
  /\ ~sdkApp
  /\ initAppCalls' = initAppCalls + 1
  /\ sdkApp' = TRUE
  /\ app' = AppHandle(initAppCalls + 1)
  /\ Goto(t, "i_fs")
  /\ UNCHANGED <<env, stream, class, firestore_client, realtime_db, remote, op,
                 clock, faultSeen, lastInit>>

\* Line 75: the SDK raises ValueError when the default app already exists.
InitAppDuplicate(t) ==
  /\ pc[t] = "i_app"
  /\ sdkApp
  /\ initAppCalls' = initAppCalls + 1
  /\ InitRaises(t)
  /\ UNCHANGED <<shared, stream, op, clock, faultSeen>>

\* Line 75: the SDK rejects the credential or the options.
InitAppFault(t) ==
  /\ pc[t] = "i_app"
  /\ ~sdkApp
  /\ initAppCalls' = initAppCalls + 1
  /\ faultSeen' = TRUE
  /\ InitRaises(t)
  /\ UNCHANGED <<shared, stream, op, clock>>

\* Line 81: firestore.client(self.app).
InitFirestoreOk(t) ==
  /\ pc[t] = "i_fs"
  /\ firestore_client' = ClientHandle(app)
  /\ Goto(t, "i_rtdb")
  /\ UNCHANGED <<env, stream, class, app, realtime_db, sdkApp, remote, op,
                 counters>>

\* An except clause that drops the app when the client cannot be made.
InitFirestoreFault_ClearsApp(t) ==
  /\ pc[t] = "i_fs"
  /\ faultSeen' = TRUE
  /\ app' = None
  /\ InitRaises(t)
  /\ UNCHANGED <<env, stream, class, firestore_client, realtime_db, sdkApp,
                 remote, op, clock, initAppCalls>>

\* Line 81: firestore.client raises.
InitFirestoreFault(t) ==
  /\ pc[t] = "i_fs"
  /\ faultSeen' = TRUE
  /\ InitRaises(t)
  /\ UNCHANGED <<shared, stream, op, clock, initAppCalls>>

\* Lines 83-87: the realtime reference, only with a database URL.
InitRealtimeOk(t) ==
  /\ pc[t] = "i_rtdb"
  /\ IF Truthy(envUrl)
       THEN realtime_db' = RefHandle(app)
       ELSE UNCHANGED realtime_db
  /\ InitReturns(t)
  /\ UNCHANGED <<env, stream, class, app, firestore_client, sdkApp, remote, op,
                 clock, initAppCalls, faultSeen>>

\* An except clause that drops the app, and only the app, when the
\* realtime reference cannot be made.
InitRealtimeFault_ClearsApp(t) ==
  /\ pc[t] = "i_rtdb"
  /\ Truthy(envUrl)
  /\ faultSeen' = TRUE
  /\ app' = None
  /\ InitRaises(t)
  /\ UNCHANGED <<env, stream, class, firestore_client, realtime_db, sdkApp,
                 remote, op, clock, initAppCalls>>

\* Line 84: db.reference raises.
InitRealtimeFault(t) ==
  /\ pc[t] = "i_rtdb"
  /\ Truthy(envUrl)
  /\ faultSeen' = TRUE
  /\ InitRaises(t)
  /\ UNCHANGED <<shared, stream, op, clock, initAppCalls>>

\* ----------------------------------------------------------- accessors
CallGetFirestore(t) ==
  /\ Start(t, "get_firestore", NoArg, "gf_check")
  /\ UNCHANGED <<shared, stream, strategy, enriched, counters>>

\* get_firestore returns self.firestore_client (line 99) to its caller.
GetFirestoreReturns(t) ==
  CASE op[t] = "update_market_state" -> Goto(t, "u_set")
    [] op[t] = "stream_market_updates" -> Goto(t, "s_register")
    [] OTHER -> Finish(t, "ok", firestore_client)

\* Line 95 with a client present: straight to line 99.
GetFirestoreHit(t) ==
  /\ pc[t] = "gf_check"
  /\ firestore_client # None
  /\ GetFirestoreReturns(t)
  /\ UNCHANGED <<shared, stream, op, counters>>

\* Lines 95-96: no client, call self.initialize().
GetFirestoreMiss(t) ==
  /\ pc[t] = "gf_check"
  /\ firestore_client = None
  /\ Goto(t, "i_check")
  /\ UNCHANGED <<shared, stream, op, counters>>

\* Lines 97-99 after initialize returned: the client is there.
GetFirestoreRecheckOk(t) ==
  /\ pc[t] = "gf_recheck"
  /\ firestore_client # None
  /\ GetFirestoreReturns(t)
  /\ UNCHANGED <<shared, stream, op, counters>>

\* A get_firestore without the test of line 97: the missing client is
\* handed back.
GetFirestoreRecheckFail_ReturnsNone(t) ==
  /\ pc[t] = "gf_recheck"
  /\ firestore_client = None
  /\ Finish(t, "ok", firestore_client)
  /\ UNCHANGED <<shared, stream, op, counters>>

\* Lines 97-98: still no client, RuntimeError.
GetFirestoreRecheckFail(t) ==
  /\ pc[t] = "gf_recheck"
  /\ firestore_client = None
  /\ Finish(t, "RuntimeError", None)
  /\ UNCHANGED <<shared, stream, op, counters>>

CallGetRealtimeDb(t) ==
  /\ Start(t, "get_realtime_db", NoArg, "grd_check")
  /\ UNCHANGED <<shared, stream, strategy, enriched, counters>>

\* The test of line 103 without its environment half.
NeedsRealtimeInit_IgnoresUrl(rt, url) == rt = None

\* Line 103: does get_realtime_db call initialize?
NeedsRealtimeInit(rt, url) == rt = None /\ Truthy(url)

\* Lines 103 and 105 when the condition is false.
GetRealtimeDbDirect(t) ==
  /\ pc[t] = "grd_check"
  /\ ~NeedsRealtimeInit(realtime_db, envUrl)
  /\ Finish(t, "ok", realtime_db)
  /\ UNCHANGED <<shared, stream, op, counters>>

\* Lines 103-104: call self.initialize().
GetRealtimeDbInit(t) ==
  /\ pc[t] = "grd_check"
  /\ NeedsRealtimeInit(realtime_db, envUrl)
  /\ Goto(t, "i_check")
  /\ UNCHANGED <<shared, stream, op, counters>>

\* Line 105 after initialize returned.
GetRealtimeDbReturn(t) ==
  /\ pc[t] = "grd_return"
  /\ Finish(t, "ok", realtime_db)
  /\ UNCHANGED <<shared, stream, op, counters>>

\* ------------------------------------------------------- notifications
\* The store's listener of thread t is open on document s.
Watches(t, s) == listening[t] /\ subscribed[t] = s

\* The store notifies every open listener on document s of its new state.
Notify(s, doc) ==
  emitted' = [t \in Threads |->
                IF Watches(t, s) THEN Append(emitted[t], Snapshot(doc))
                ELSE emitted[t]]

\* ------------------------------------------------- update_market_state
\* Lines 107-132: called with arguments that pass line 120; enriched_data
\* is built with the time of the call and get_firestore is entered.  All
\* of it is local to the caller, hence one step.
CallUpdate(t) ==
  /\ \E a \in UpdateArgs :
       /\ ValidArgs(a[1], a[2])
       /\ Start(t, "update_market_state",
                [NoArg EXCEPT !.symbol = a[1], !.state_data = a[2]],
                "gf_check")
       /\ enriched' = [enriched EXCEPT ![t] =
                         Enrich(a[1], a[2], IsoFormat(clock + 1))]
  /\ clock' = clock + 1
  /\ UNCHANGED <<shared, stream, strategy, initAppCalls, faultSeen, lastInit>>

\* Lines 107-121 and 137-140: called with arguments that fail line 120;
\* ValueError, logged and re-raised.  The rejected arguments stay on
\* record in arg.
UpdateInvalid(t) ==
  /\ MayCall(t)
  /\ instance # None
  /\ \E a \in UpdateArgs :
       /\ ~ValidArgs(a[1], a[2])
       /\ arg' = [arg EXCEPT ![t] =
                    [NoArg EXCEPT !.symbol = a[1], !.state_data = a[2]]]
  /\ op' = [op EXCEPT ![t] = "update_market_state"]
  /\ result' = [result EXCEPT ![t] = "ValueError"]
  /\ UNCHANGED <<shared, stream, pc, retval, strategy, enriched, counters>>

\* Line 133: the merge-write reaches the store.
UpdateSetOk(t) ==
  /\ pc[t] = "u_set"
  /\ LET sym == arg[t].symbol
         written == ServerResolve(enriched[t], ServerTime(setCalls + 1))
     IN /\ store' = [store EXCEPT ![sym] = MergeSet(store[sym], written)]
        /\ writeLog' = Append(writeLog, [symbol |-> sym, payload |-> written])
        /\ Notify(sym, MergeSet(store[sym], written))
  /\ setCalls' = setCalls + 1
  /\ Finish(t, "ok", None)
  /\ UNCHANGED <<env, class, session, sdkApp, op, counters, subscribed,
                 listening, delivered, handled, cancelMark>>

\* An except clause that logs and does not re-raise.
UpdateSetFault_Swallowed(t) ==
  /\ pc[t] = "u_set"
  /\ setCalls' = setCalls + 1
  /\ faultSeen' = TRUE
  /\ Finish(t, "ok", None)
  /\ UNCHANGED <<env, stream, class, session, sdkApp, store, writeLog, op,
                 clock, initAppCalls, lastInit>>

\* Lines 133 and 137-140: the store rejects the write; logged, re-raised.
UpdateSetFault(t) ==
  /\ pc[t] = "u_set"
  /\ setCalls' = setCalls + 1
  /\ faultSeen' = TRUE
  /\ Finish(t, "StoreError", None)
  /\ UNCHANGED <<env, stream, class, session, sdkApp, store, writeLog, op,
                 clock, initAppCalls, lastInit>>

\* ----------------------------------------------- stream_market_updates
\* Lines 142-155: the call enters get_firestore first.
CallStreamOn(t, symbols) ==
  /\ \E s \in symbols :
       Start(t, "stream_market_updates", [NoArg EXCEPT !.symbol = s],
             "gf_check")
  /\ UNCHANGED <<shared, stream, strategy, enriched, counters>>

CallStream(t) == CallStreamOn(t, MainStreamSymbols)

\* After line 159 (the source text ends there): on_snapshot is registered
\* as the listener of the document, and the call returns the subscription.
StreamRegisterOk(t) ==
  /\ pc[t] = "s_register"
  /\ subscribed' = [subscribed EXCEPT ![t] = arg[t].symbol]
  /\ listening' = [listening EXCEPT ![t] = TRUE]
  /\ Finish(t, "ok", SubscriptionHandle(t))
  /\ UNCHANGED <<shared, op, counters, emitted, delivered, handled,
                 cancelMark>>

\* The listener cannot be established: the error surfaces from the call.
StreamRegisterFault(t) ==
  /\ pc[t] = "s_register"
  /\ faultSeen' = TRUE
  /\ Finish(t, "StoreError", None)
  /\ UNCHANGED <<shared, stream, op, clock, initAppCalls, lastInit>>

\* A delivery that puts the newest payload in front of the earlier ones.
OnSnapshot_NewestFirst(t) ==
  /\ delivered[t] < Len(emitted[t])
  /\ delivered' = [delivered EXCEPT ![t] = delivered[t] + 1]
  /\ handled' = [handled EXCEPT ![t] =
                   HandlerCalls(emitted[t][delivered[t] + 1]) \o handled[t]]
  /\ UNCHANGED <<shared, op, pc, arg, strategy, enriched, result, retval,
                 counters, subscribed, listening, emitted, cancelMark>>

\* Lines 157-159: the store client runs on_snapshot on the next
\* notification of the listener of t, in the order of emission.
OnSnapshot(t) ==
  /\ delivered[t] < Len(emitted[t])
  /\ delivered' = [delivered EXCEPT ![t] = delivered[t] + 1]
  /\ handled' = [handled EXCEPT ![t] =
                   handled[t] \o HandlerCalls(emitted[t][delivered[t] + 1])]
  /\ UNCHANGED <<shared, op, pc, arg, strategy, enriched, result, retval,
                 counters, subscribed, listening, emitted, cancelMark>>

\* A cancel that marks the subscription and leaves the listener open.
Cancel_KeepsListening(t) ==
  /\ Idle(t)
  /\ retval[t] = SubscriptionHandle(t)
  /\ cancelMark[t] = NotCancelled
  /\ cancelMark' = [cancelMark EXCEPT ![t] = <<Len(emitted[t])>>]
  /\ UNCHANGED <<shared, op, pc, arg, strategy, enriched, result, retval,
                 counters, subscribed, listening, emitted, delivered,
                 handled>>

\* Subscription.cancel() by the caller that holds the subscription: the
\* store closes the listener; what was emitted before may still arrive.
Cancel(t) ==
  /\ Idle(t)
  /\ retval[t] = SubscriptionHandle(t)
  /\ cancelMark[t] = NotCancelled
  /\ listening' = [listening EXCEPT ![t] = FALSE]
  /\ cancelMark' = [cancelMark EXCEPT ![t] = <<Len(emitted[t])>>]
  /\ UNCHANGED <<shared, op, pc, arg, strategy, enriched, result, retval,
                 counters, subscribed, emitted, delivered, handled>>

\* ------------------------------------------------------- specification
Next ==
  \/ \E t \in Threads : Construct(t)
  \/ \E t \in Threads : CallInitialize(t)
  \/ \E t \in Threads : InitGuardHit(t)
  \/ \E t \in Threads : InitResolveOk(t)
  \/ \E t \in Threads : InitResolveFail(t)
  \/ \E t \in Threads : InitAppOk(t)
  \/ \E t \in Threads : InitAppDuplicate(t)
  \/ \E t \in Threads : InitAppFault(t)
  \/ \E t \in Threads : InitFirestoreOk(t)
  \/ \E t \in Threads : InitFirestoreFault(t)
  \/ \E t \in Threads : InitRealtimeOk(t)
  \/ \E t \in Threads : InitRealtimeFault(t)
  \/ \E t \in Threads : CallGetFirestore(t)
  \/ \E t \in Threads : GetFirestoreHit(t)
  \/ \E t \in Threads : GetFirestoreMiss(t)
  \/ \E t \in Threads : GetFirestoreRecheckOk(t)
  \/ \E t \in Threads : GetFirestoreRecheckFail(t)
  \/ \E t \in Threads : CallGetRealtimeDb(t)
  \/ \E t \in Threads : GetRealtimeDbDirect(t)
  \/ \E t \in Threads : GetRealtimeDbInit(t)
  \/ \E t \in Threads : GetRealtimeDbReturn(t)
  \/ \E t \in Threads : CallUpdate(t)
  \/ \E t \in Threads : UpdateInvalid(t)
  \/ \E t \in Threads : UpdateSetOk(t)
  \/ \E t \in Threads : UpdateSetFault(t)
  \/ \E t \in Threads : CallStream(t)
  \/ \E t \in Threads : StreamRegisterOk(t)
  \/ \E t \in Threads : StreamRegisterFault(t)
  \/ \E t \in Threads : OnSnapshot(t)
  \/ \E t \in Threads : Cancel(t)

Spec == Init /\ [][Next]_vars

\* The resolver specification: every environment, every credential_path,
\* initialize only.
InitAll == \E e \in GacValues \X FsaValues \X UrlValues : InitWith(e)

CallInitializeAny(t) == CallInitializeWith(t, CredPaths)

NextResolve ==
  \/ \E t \in Threads : CallInitializeAny(t)
  \/ \E t \in Threads : InitGuardHit(t)
  \/ \E t \in Threads : InitResolveOk(t)
  \/ \E t \in Threads : InitResolveFail(t)
  \/ \E t \in Threads : InitAppOk(t)
  \/ \E t \in Threads : InitAppDuplicate(t)
  \/ \E t \in Threads : InitAppFault(t)
  \/ \E t \in Threads : InitFirestoreOk(t)
  \/ \E t \in Threads : InitFirestoreFault(t)
  \/ \E t \in Threads : InitRealtimeOk(t)
  \/ \E t \in Threads : InitRealtimeFault(t)

SpecResolve == InitAll /\ [][NextResolve]_vars

\* The subscription specification: the session has been established;
\* callers subscribe and cancel, and the documents are written and deleted
\* by other processes.
StreamEnv == <<"adc.json", "{account}", "https://db">>

InitStream ==
  /\ envGac = StreamEnv[1]
  /\ envFsa = StreamEnv[2]
  /\ envUrl = StreamEnv[3]
  /\ instance = Instance
  /\ initialized = TRUE
  /\ app = AppHandle(1)
  /\ firestore_client = ClientHandle(app)
  /\ realtime_db = RefHandle(app)
  /\ sdkApp = TRUE
  /\ store = [s \in Symbols \ {""} |-> NoDoc]
  /\ op = [t \in Threads |-> "none"]
  /\ pc = [t \in Threads |-> "idle"]
  /\ arg = [t \in Threads |-> NoArg]
  /\ strategy = [t \in Threads |-> 0]
  /\ enriched = [t \in Threads |-> NoDoc]
  /\ result = [t \in Threads |-> "none"]
  /\ retval = [t \in Threads |-> None]
  /\ clock = 0
  /\ initAppCalls = 1
  /\ writeLog = <<>>
  /\ setCalls = 0
  /\ faultSeen = FALSE
  /\ lastInit = "ok"
  /\ subscribed = [t \in Threads |-> ""]
  /\ listening = [t \in Threads |-> FALSE]
  /\ emitted = [t \in Threads |-> <<>>]
  /\ delivered = [t \in Threads |-> 0]
  /\ handled = [t \in Threads |-> <<>>]
  /\ cancelMark = [t \in Threads |-> NotCancelled]

\* Notifications emitted so far to the listeners of threads 1..n.
RECURSIVE TotalEmitted(_)
TotalEmitted(n) ==
  IF n = 0 THEN 0 ELSE Len(emitted[n]) + TotalEmitted(n - 1)

\* Another process replaces or deletes document s, one that has been
\* subscribed to; the store notifies the open listeners on s.
StoreChange(s) ==
  /\ \E t \in Threads : subscribed[t] = s
  /\ TotalEmitted(NumThreads) < MaxNotifications
  /\ \E d \in RemoteDocs :
       /\ d # store[s]
       /\ store' = [store EXCEPT ![s] = d]
       /\ Notify(s, d)
  /\ UNCHANGED <<env, class, session, sdkApp, writeLog, setCalls, op, pc,
                 arg, strategy, enriched, result, retval, counters,
                 subscribed, listening, delivered, handled, cancelMark>>

CallStreamAny(t) == CallStreamOn(t, StreamSymbols)

NextStream ==
  \/ \E t \in Threads : CallStreamAny(t)
  \/ \E t \in Threads : GetFirestoreHit(t)
  \/ \E t \in Threads : StreamRegisterOk(t)
  \/ \E t \in Threads : StreamRegisterFault(t)
  \/ \E s \in StreamSymbols : StoreChange(s)
  \/ \E t \in Threads : OnSnapshot(t)
  \/ \E t \in Threads : Cancel(t)

SpecStream == InitStream /\ [][NextStream]_vars

TypeOK ==
  /\ initAppCalls \in 0..NumThreads
  /\ Len(writeLog) <= setCalls

\* ------------------------------------------------------- properties
\* Thread t is inside the body of initialize.
InInitialize(t) == pc[t] \in {"i_check", "i_app", "i_fs", "i_rtdb"}

\* Thread t takes a step.
Steps(t) == pc'[t] # pc[t]

InitOps == {"initialize", "get_firestore", "get_realtime_db"}

\* C1: under a valid configuration (nothing external failed, the resolver
\* did not fail) concurrent first calls of initialize or of a lazy accessor
\* execute firebase_admin.initialize_app at most once and none of them
\* ends with an error.
C1_ConstructedOnceNoError ==
  ~faultSeen =>
    /\ initAppCalls <= 1
    /\ \A t \in Threads : (Idle(t) /\ op[t] \in InitOps) => ~Failed(t)

\* C2: whenever no initialize call is in progress the session is whole:
\* app and firestore_client are both unset, or both set together with
\* realtime_db when a database URL is configured.
C2_NoPartialSession ==
  (\A t \in Threads : ~InInitialize(t)) =>
    \/ app = None /\ firestore_client = None
    \/ /\ app # None
       /\ firestore_client # None
       /\ (Truthy(envUrl) => realtime_db # None)

\* C3: a step of initialize taken at its entry while a session exists
\* returns normally, enters neither the resolver nor initialize_app, and
\* leaves app, firestore_client and realtime_db as they were.
C3_InitializeIdempotent ==
  [][\A t \in Threads :
       (pc[t] = "i_check" /\ app # None /\ Steps(t)) =>
         /\ pc'[t] \notin {"i_app", "i_fs", "i_rtdb"}
         /\ (op[t] = "initialize" => pc'[t] = "idle" /\ result'[t] = "ok")
         /\ result'[t] \in {"none", "ok"}
         /\ lastInit' = "ok"
         /\ initAppCalls' = initAppCalls
         /\ UNCHANGED session]_vars

\* Two initialize calls have returned normally on one construction.
C3_Witness ==
  /\ \A t \in {1, 2} : Idle(t) /\ op[t] = "initialize" /\ result[t] = "ok"
  /\ initAppCalls = 1
  /\ ~faultSeen

\* C4: while the most recently finished initialize call is a failed one, no
\* get_firestore or update_market_state call completes successfully.
C4_FailedInitBlocksStore ==
  [][\A t \in Threads :
       (lastInit = "failed" /\ Steps(t)
        /\ op[t] \in {"get_firestore", "update_market_state"})
       => ~(pc'[t] = "idle" /\ result'[t] = "ok")]_vars

\* The priority order of section 4.1, stated trigger by trigger.
TriggerHolds(k, cp, gac, fsa) ==
  CASE k = 1 -> cp \notin {Unset, ""} /\ cp \in ExistingFiles
    [] k = 2 -> gac \notin {Unset, ""}
    [] k = 3 -> fsa \notin {Unset, ""}
    [] OTHER -> TRUE

FirstSatisfied(cp, gac, fsa) ==
  CHOOSE k \in 1..4 :
    /\ TriggerHolds(k, cp, gac, fsa)
    /\ \A j \in 1..(k - 1) : ~TriggerHolds(j, cp, gac, fsa)

\* C5: the credential an initialize call carries into initialize_app is the
\* one of the first satisfied strategy in the order file, ambient, inline,
\* default, whatever lower-priority triggers are present.
C5_FirstSatisfiedStrategy ==
  \A t \in Threads :
    pc[t] \in {"i_app", "i_fs", "i_rtdb"} =>
      strategy[t] = FirstSatisfied(arg[t].credential_path, envGac, envFsa)

\* Strategy 2 chosen although the inline payload is present too, and
\* strategy 1 chosen over both environment triggers.
C5_Witness ==
  \E t \in Threads :
    /\ pc[t] = "i_app"
    /\ Truthy(envFsa) /\ Truthy(envGac)
    /\ strategy[t] \in {1, 2}
    /\ (strategy[t] = 1 <=> arg[t].credential_path = "cred.json")

MalformedPayloads == {"{bad"}

\* C6: when initialize gets to the resolver, strategy 3 is the selected one
\* and the inline payload is malformed, that step ends the call with an
\* error, does not go on to initialize_app and leaves the session fields
\* alone.
C6_MalformedInlineIsTerminal ==
  [][\A t \in Threads :
       (/\ pc[t] = "i_check" /\ app = None /\ Steps(t)
        /\ FirstSatisfied(arg[t].credential_path, envGac, envFsa) = 3
        /\ envFsa \in MalformedPayloads)
       => /\ pc'[t] = "idle"
          /\ result'[t] = "RuntimeError"
          /\ lastInit' = "failed"
          /\ initAppCalls' = initAppCalls
          /\ UNCHANGED session]_vars

\* An initialize call failed in the resolver: no app was ever constructed.
C6_Witness ==
  \E t \in Threads :
    /\ Idle(t) /\ op[t] = "initialize" /\ result[t] = "RuntimeError"
    /\ envFsa \in MalformedPayloads /\ ~Truthy(envGac)
    /\ initAppCalls = 0
    /\ app = None

\* The successful writes to document s, oldest first.
WritesTo(s) == SelectSeq(writeLog, LAMBDA w : w.symbol = s)

\* The document that a sequence of merge-writes must leave: every field any
\* write supplied, each with the value of the last write that supplied it.
Composed(ws) ==
  LET fields == UNION {DOMAIN ws[i].payload : i \in 1..Len(ws)}
      last(f) == CHOOSE i \in 1..Len(ws) :
                   /\ f \in DOMAIN ws[i].payload
                   /\ \A j \in (i + 1)..Len(ws) : f \notin DOMAIN ws[j].payload
  IN [f \in fields |-> ws[last(f)].payload[f]]

\* C7: every stored document holds exactly the composition of the
\* successful writes made to it: earlier fields survive, supplied fields
\* take the latest value, enrichment fields are those of the latest write.
C7_MergeWriteComposes ==
  \A s \in DOMAIN store :
    /\ store[s] = Composed(WritesTo(s))
    /\ WritesTo(s) # <<>> =>
         store[s]["timestamp"] =
           WritesTo(s)[Len(WritesTo(s))].payload["timestamp"]

\* {price: 100} then {volume: 5}: both are there, with the second write's
\* server time.
C7_Witness ==
  /\ Len(writeLog) = 2
  /\ "price" \notin DOMAIN writeLog[2].payload
  /\ "volume" \notin DOMAIN writeLog[1].payload
  /\ {"price", "volume", "timestamp"} \subseteq DOMAIN store["BTC/USDT"]
  /\ store["BTC/USDT"]["price"] = "100"
  /\ store["BTC/USDT"]["volume"] = "5"
  /\ store["BTC/USDT"]["timestamp"] = ServerTime(setCalls)

\* C8: a stored document's symbol is its key and its source is the fixed
\* tag, its timestamp is the store's and its updated_at the client clock's,
\* whatever the caller's payload contained; the same holds of every
\* enriched payload on its way to the store.
C8_EnrichmentWins ==
  /\ \A s \in DOMAIN store :
       store[s] # NoDoc =>
         /\ store[s]["symbol"] = s
         /\ store[s]["source"] = SourceTag
         /\ \E n \in 1..setCalls : store[s]["timestamp"] = ServerTime(n)
         /\ \E n \in 1..clock : store[s]["updated_at"] = IsoFormat(n)
  /\ \A t \in Threads :
       enriched[t] # NoDoc =>
         /\ enriched[t]["symbol"] = arg[t].symbol
         /\ enriched[t]["source"] = SourceTag
         /\ enriched[t]["timestamp"] = ServerTimestamp

\* A payload carrying its own symbol and source has been written.
C8_Witness ==
  /\ \E i \in 1..Len(writeLog) :
       /\ writeLog[i].symbol = "BTC/USDT"
       /\ "price" \in DOMAIN writeLog[i].payload
       /\ writeLog[i].payload["price"] = "101"
  /\ "price" \in DOMAIN store["BTC/USDT"]
  /\ store["BTC/USDT"]["price"] = "101"
  /\ store["BTC/USDT"]["symbol"] = "BTC/USDT"

\* C9: an update_market_state call with an empty symbol or a non-dict
\* payload ends with ValueError in the step that makes it: no document
\* changes, no write is issued, initialize is not entered, the session
\* fields stay.
C9_ValidationTouchesNothing ==
  [][\A t \in Threads :
       (/\ op[t] = "none" /\ op'[t] = "update_market_state"
        /\ (arg'[t].symbol = "" \/ arg'[t].state_data = NotADict))
       => /\ pc'[t] = "idle"
          /\ result'[t] = "ValueError"
          /\ UNCHANGED <<session, sdkApp, store, writeLog, setCalls,
                         initAppCalls, lastInit>>]_vars

\* A validation error raised while no session exists.
C9_Witness ==
  \E t \in Threads :
    /\ Idle(t) /\ op[t] = "update_market_state" /\ result[t] = "ValueError"
    /\ arg[t].symbol = ""
    /\ app = None /\ firestore_client = None
    /\ initAppCalls = 0 /\ setCalls = 0 /\ lastInit = "none"

\* C10: a doc_ref.set that fails ends the call with an error and leaves the
\* session fields as they were, the client still set.
C10_WriteFailureSurfaces ==
  [][\A t \in Threads :
       (/\ pc[t] = "u_set" /\ Steps(t)
        /\ setCalls' = setCalls + 1 /\ writeLog' = writeLog)
       => /\ pc'[t] = "idle"
          /\ result'[t] \notin {"none", "ok"}
          /\ store' = store
          /\ UNCHANGED session
          /\ firestore_client' # None]_vars

\* The first set failed and the second one, on the same session, went
\* through.
C10_Witness ==
  /\ setCalls = 2
  /\ Len(writeLog) = 1
  /\ writeLog[1].payload["timestamp"] = ServerTime(2)
  /\ initAppCalls = 1
  /\ \E t \in Threads :
       Idle(t) /\ op[t] = "update_market_state" /\ result[t] = "ok"

\* C11: get_firestore hands back the document-store handle.  With a handle
\* present it returns it and starts no initialization; with none it enters
\* initialize with the default argument, and it does so once per call, as
\* initialize is entered from line 96 only and line 95 is never evaluated
\* again; when initialize has returned and there is still no handle the
\* call raises RuntimeError.
C11_GetFirestoreLazyOnce ==
  [][\A t \in Threads :
       (op[t] = "get_firestore" /\ Steps(t)) =>
         /\ pc'[t] # "gf_check"
         /\ pc'[t] = "i_check" => pc[t] = "gf_check"
         /\ pc[t] = "gf_check" =>
              IF firestore_client = None
                THEN /\ pc'[t] = "i_check"
                     /\ arg'[t].credential_path = Unset
                ELSE /\ pc'[t] = "idle"
                     /\ result'[t] = "ok"
                     /\ retval'[t] = firestore_client
                     /\ UNCHANGED <<session, sdkApp, initAppCalls, lastInit>>
         /\ pc[t] = "gf_recheck" =>
              /\ pc'[t] = "idle"
              /\ IF firestore_client = None
                   THEN result'[t] = "RuntimeError"
                   ELSE result'[t] = "ok" /\ retval'[t] = firestore_client]_vars

\* The only call so far is a get_firestore that found no session, ran
\* initialize and returned the new handle.
C11_Witness ==
  /\ op[1] = "get_firestore"
  /\ Idle(1)
  /\ result[1] = "ok"
  /\ retval[1] = firestore_client
  /\ firestore_client # None
  /\ initAppCalls = 1
  /\ \A u \in Threads : u # 1 => op[u] = "none"

\* No database URL: os.environ.get gives None or the empty string.
NoUrlConfigured == envUrl \in {Unset, ""}

\* C12: without a database URL get_realtime_db returns None, raises nothing
\* and starts no initialization, whatever the state of the session.
C12_NoUrlReturnsNone ==
  [][\A t \in Threads :
       (op'[t] = "get_realtime_db" /\ Steps(t) /\ pc[t] # "idle"
        /\ NoUrlConfigured) =>
         /\ pc[t] = "grd_check"
         /\ pc'[t] = "idle"
         /\ result'[t] = "ok"
         /\ retval'[t] = None
         /\ UNCHANGED <<session, sdkApp, initAppCalls, lastInit>>]_vars

\* get_realtime_db has returned None without a URL after an initialize
\* that succeeded.
C12_Witness ==
  /\ NoUrlConfigured
  /\ op[1] = "initialize" /\ result[1] = "ok"
  /\ firestore_client # None
  /\ op[2] = "get_realtime_db"
  /\ Idle(2)
  /\ result[2] = "ok"
  /\ retval[2] = None

\* C13: the handler is called for exactly the notifications whose snapshot
\* exists, once each and with that snapshot's payload; a notification of a
\* missing (deleted) document calls nothing, and no call carries the null
\* payload.
C13_HandlerOnlyOnExisting ==
  [][\A t \in Threads :
       /\ delivered'[t] = delivered[t] + 1 =>
            LET snap == emitted[t][delivered[t] + 1]
            IN IF snap.exists
                 THEN handled'[t] = Append(handled[t], snap.data)
                 ELSE handled'[t] = handled[t]
       /\ delivered'[t] = delivered[t] => handled'[t] = handled[t]
       /\ \A i \in 1..Len(handled'[t]) : handled'[t][i] # NullPayload]_vars

\* A listener has been notified of a state of its document and then of
\* its deletion; the handler has run once, with the state.
C13_Witness ==
  \E t \in Threads :
    /\ delivered[t] = 2
    /\ emitted[t][1].exists
    /\ ~emitted[t][2].exists
    /\ handled[t] = <<emitted[t][1].data>>

ExistingPayloads(seq) ==
  LET ex == SelectSeq(seq, LAMBDA n : n.exists)
  IN [i \in 1..Len(ex) |-> ex[i].data]

\* C15: for every subscription the sequence of handler calls is the
\* sequence of the delivered notifications restricted to existing
\* snapshots: same order, nothing twice, nothing left out.
C15_HandledInOrder ==
  \A t \in Threads :
    handled[t] = ExistingPayloads(SubSeq(emitted[t], 1, delivered[t]))

\* The handler of a subscription has been called with two different
\* states of the document, in the order of their notifications.
C15_Witness ==
  \E t \in Threads :
    /\ delivered[t] = 2
    /\ Len(handled[t]) = 2
    /\ handled[t][1] # handled[t][2]
    /\ handled[t][1] = emitted[t][1].data

\* C16: whenever an initialize call returns normally, and no other thread
\* is inside initialize at that moment, the document-store client is set
\* and realtime_db is set exactly when FIREBASE_DATABASE_URL is non-empty.
C16_SuccessfulInitSetsHandles ==
  [][\A t \in Threads :
       (/\ op[t] = "initialize"
        /\ Steps(t)
        /\ pc'[t] = "idle"
        /\ result'[t] = "ok"
        /\ \A u \in Threads : u # t => ~InInitialize(u)) =>
         /\ firestore_client' # None
         /\ realtime_db' # None <=> Truthy(envUrl)]_vars

\* C17: the session is read-only once made: no step of any operation,
\* failing runs included, changes app once it is set, nor a firestore_client
\* or a realtime_db that is set.
C17_SessionReadOnly ==
  [][/\ app # None => app' = app
     /\ firestore_client # None => firestore_client' = firestore_client
     /\ realtime_db # None => realtime_db' = realtime_db]_vars

\* A second execution of initialize_app has been attempted and the app is
\* still the one of the first.
C17_Witness ==
  /\ app = AppHandle(1)
  /\ initAppCalls = 2
  /\ \A t \in Threads : Idle(t)

\* C18: FirebaseManager() called again returns the one instance and leaves
\* app, firestore_client and realtime_db as they are.
C18_ReconstructionKeepsSession ==
  [][\A t \in Threads :
       (op[t] # "construct" /\ op'[t] = "construct") =>
         /\ result'[t] = "ok"
         /\ retval'[t] = instance
         /\ instance' = instance
         /\ UNCHANGED session]_vars

\* The constructor has been called again after a session was established.
C18_Witness ==
  /\ op[1] = "initialize" /\ Idle(1) /\ result[1] = "ok"
  /\ app # None
  /\ firestore_client # None
  /\ op[2] = "construct"
  /\ result[2] = "ok"
  /\ retval[2] = instance

\* C19: the fields nest: realtime_db is set only with firestore_client set,
\* and firestore_client only with app set.
C19_FieldsNest ==
  /\ realtime_db # None => firestore_client # None
  /\ firestore_client # None => app # None

\* All three fields are set.
C19_Witness ==
  /\ realtime_db # None
  /\ firestore_client = ClientHandle(app)
  /\ app # None

\* C20: with a database URL configured and realtime_db unset,
\* get_realtime_db calls initialize.  When that initialize finds the app
\* set it changes nothing and get_realtime_db returns None without error;
\* when it finds no app and fails, get_realtime_db raises the error of
\* initialize instead of returning.  (strategy is 0 at line 105 exactly
\* when the initialize of this call stopped at the guard.)
C20_RealtimeLazyInit ==
  [][\A t \in Threads :
       (op[t] = "get_realtime_db" /\ Steps(t)) =>
         /\ (pc[t] = "grd_check" /\ Truthy(envUrl) /\ realtime_db = None) =>
              pc'[t] = "i_check"
         /\ (pc[t] = "i_check" /\ app # None) =>
              /\ pc'[t] = "grd_return"
              /\ UNCHANGED <<session, sdkApp, initAppCalls>>
         /\ (pc[t] = "grd_return" /\ strategy[t] = 0) =>
              /\ result'[t] = "ok"
              /\ retval'[t] = None
         /\ (InInitialize(t) /\ faultSeen' /\ ~faultSeen) =>
              /\ pc'[t] = "idle"
              /\ result'[t] = "RuntimeError"]_vars
====
